---------------------------- MODULE Spec2Model ----------------------------
(***************************************************************************)
(* gov-purchase-table: generate_html.py.                                   *)
(*                                                                         *)
(* One batch run reads two CSV files, normalises them, parses the time     *)
(* column, tags and deduplicates the rows against the persisted history,   *)
(* renders one HTML page, writes it and then replaces the history.  The    *)
(* page carries a script whose handlers filter and sort the rendered rows. *)
(*                                                                         *)
(* Strings of the program that are not ASCII are written here by an ASCII  *)
(* stand-in (the module's lexer accepts ASCII only):                       *)
(*   "no_data" = wu-shuju, "uncategorized" = wei-fenlei,                   *)
(*   "unknown" = wei-zhi; column names likewise.                           *)
(***************************************************************************)
EXTENDS Integers, Sequences, FiniteSets, TLC

VARIABLES
    csv,              \* the two CSV files on disk, per dataset
    historyFile,      \* the history JSON file on disk
    htmlFile,         \* the HTML file on disk
    errors_ignore,    \* the installed pandas: does to_datetime accept errors='ignore'
    pc,               \* position of generate_online_html_table
    history_data,     \* local of generate_online_html_table
    df,               \* df_notice / df_intention, per dataset
    titles,           \* current_notice_titles / current_intention_titles
    page,             \* notice_html / intention_html (full_html in memory)
    lastSaved,        \* history of the runs: the keys of the latest run that saved
                      \* (latest) and of all runs that saved (ever), per dataset
    tbody,            \* browser: the rows of tbody-<tableId>, per table
    selects,          \* browser: the value of each filter dropdown, per table
    filterState,      \* browser: filterState[tableId] = {onlyNew, sortType}
    originalRowOrder, \* browser: originalRowOrder[tableId]
    loaded            \* browser: window.onload has run

vars == <<csv, historyFile, htmlFile, errors_ignore, pc, history_data, df,
          titles, page, lastSaved, tbody, selects, filterState,
          originalRowOrder, loaded>>

runVars == <<csv, historyFile, htmlFile, errors_ignore, pc, history_data, df,
             titles, page, lastSaved>>

browserVars == <<tbody, selects, filterState, originalRowOrder, loaded>>

---------------------------------------------------------------------------
(* Bounds of the model.                                                    *)

MaxRows == 3        \* longest CSV of the deduplication family
MaxUiRows == 2      \* longest CSV of the rendered-table family
MaxRunRows == 2     \* longest CSV of the repeated-runs family

---------------------------------------------------------------------------
(* Sequence helpers.                                                       *)

Range(s) == {s[i] : i \in 1..Len(s)}

SeqsUpTo(S, n) == UNION {[1..k -> S] : k \in 0..n}

IsIn(x, s) == \E i \in 1..Len(s) : s[i] = x

\* list.remove(x): drops the first occurrence
Remove(s, x) ==
    LET i == CHOOSE k \in 1..Len(s) : s[k] = x /\ \A j \in 1..(k - 1) : s[j] # x
    IN  SubSeq(s, 1, i - 1) \o SubSeq(s, i + 1, Len(s))

\* list.insert(i, x) with a 0-based i: an index past the end appends
Insert(s, i, x) ==
    LET k == IF i > Len(s) THEN Len(s) ELSE i
    IN  SubSeq(s, 1, k) \o <<x>> \o SubSeq(s, k + 1, Len(s))

\* the permutations of 1..n
Perms(n) == {p \in [1..n -> 1..n] : \A i, j \in 1..n : i # j => p[i] # p[j]}

---------------------------------------------------------------------------
(* Configuration and the values of cells.                                  *)

NO_DATA == "no_data"
UNCATEGORIZED == "uncategorized"
UNKNOWN == "unknown"
NaN == "NaN"                 \* a missing cell of a DataFrame
CATEGORY_COL == "category"   \* the column fillna gives "uncategorized"

Tables == {"purchase_notice", "purchase_intention"}

CONFIG ==
    [purchase_notice |->
        [headers |-> <<"title", "level", "category", "pub_time", "link">>,
         unique_key |-> "title",
         filter_cols |-> <<"level", "category">>,
         time_col |-> "pub_time",
         table_id |-> "notice"],
     purchase_intention |->
        [headers |-> <<"i_title", "i_level", "unit", "i_pub_time", "link">>,
         unique_key |-> "i_title",
         filter_cols |-> <<"i_level", "unit">>,
         time_col |-> "i_pub_time",
         table_id |-> "intention"]]

ParsedCol(time_col) == time_col \o "_parsed"

\* Python orders strings by code point.  The rank of each filter value of the
\* model is the order of the first character of the string it stands for:
\* gongcheng 5DE5 < shiji 5E02 < wu-shuju 65E0 < fuwu 670D < wei-fenlei 672A
\* < shengji 7701 < huowu 8D27.
CodePoint ==
    [gongcheng |-> 1, shiji |-> 2, no_data |-> 3, fuwu |-> 4,
     uncategorized |-> 5, shengji |-> 6, huowu |-> 7]

FilterValues == DOMAIN CodePoint

Keys == {"k1", "k2", "k3"}

---------------------------------------------------------------------------
(* Time strings and pandas.to_datetime.                                    *)

\* The formats of parse_time, by position in its list.
Formats ==
    <<"%Y-%m-%d %H:%M:%S", "%Y-%m-%d", "%Y/%m/%d", "%Y(nian)%m(yue)%d(ri)",
      "%m-%d-%Y", "%d/%m/%Y">>

\* What to_datetime makes of each time string of the model: the one format of
\* the list it matches (0: none), whether the format-free parse accepts it,
\* and the seconds since the epoch of the instant it names.
TimeCatalogue ==
    {[text |-> "2024-03-01 08:00:00", fmt |-> 1, generic |-> TRUE, ts |-> 1709280000],
     [text |-> "2024-03-02", fmt |-> 2, generic |-> TRUE, ts |-> 1709337600],
     [text |-> "2024/03/03", fmt |-> 3, generic |-> TRUE, ts |-> 1709424000],
     [text |-> "1969-12-31", fmt |-> 2, generic |-> TRUE, ts |-> -86400],
     [text |-> "1970-01-01", fmt |-> 2, generic |-> TRUE, ts |-> 0],
     [text |-> "Mar 5, 2024", fmt |-> 0, generic |-> TRUE, ts |-> 1709596800],
     [text |-> "pending", fmt |-> 0, generic |-> FALSE, ts |-> 0],
     [text |-> "", fmt |-> 0, generic |-> FALSE, ts |-> 0],
     [text |-> NO_DATA, fmt |-> 0, generic |-> FALSE, ts |-> 0],
     [text |-> UNKNOWN, fmt |-> 0, generic |-> FALSE, ts |-> 0]}

TimeStrings == {e.text : e \in TimeCatalogue}

Entry(time_str) == CHOOSE e \in TimeCatalogue : e.text = time_str

\* values of the derived column
NaT == [kind |-> "NaT", ts |-> 0, text |-> ""]
Timestamp(n) == [kind |-> "Timestamp", ts |-> n, text |-> ""]
RawString(s) == [kind |-> "str", ts |-> 0, text |-> s]
Raised == [kind |-> "raised", ts |-> 0, text |-> ""]

\* pd.to_datetime(time_str, format=fmt): a Timestamp, or it raises
to_datetime_format(time_str, f) ==
    IF Entry(time_str).fmt = f THEN Timestamp(Entry(time_str).ts) ELSE Raised

\* pd.to_datetime(time_str, errors='ignore'): where pandas accepts the option
\* an input that does not parse comes back as it is; where it does not
\* (pandas 3) the call raises
to_datetime_ignore(time_str, accepts) ==
    IF ~accepts THEN Raised
    ELSE IF Entry(time_str).generic THEN Timestamp(Entry(time_str).ts)
    ELSE RawString(time_str)


---------------------------------------------------------------------------
(* DataFrames: an ordered list of column names and an ordered list of      *)
(* rows, each row an index label and one cell per column.                  *)

EmptyDataFrame(headers) == [columns |-> headers, rows |-> <<>>]

Cells(d) == [i \in 1..Len(d.rows) |-> d.rows[i].cells]

Column(d, col) == [i \in 1..Len(d.rows) |-> d.rows[i].cells[col]]

\* df[col] = values: a new last column, or the column replaced
WithColumn(d, col, values) ==
    [columns |-> IF IsIn(col, d.columns) THEN d.columns
                 ELSE Append(d.columns, col),
     rows |-> [i \in 1..Len(d.rows) |->
                 [index |-> d.rows[i].index,
                  cells |-> [c \in Range(d.columns) \cup {col} |->
                               IF c = col THEN values[i]
                               ELSE d.rows[i].cells[c]]]]]

---------------------------------------------------------------------------
(* The history store.                                                      *)

\* a JSON object whose members are key lists, or any other JSON value
JsonDict(f) == [kind |-> "dict", dict |-> f]
JsonOther == [kind |-> "other", dict |-> [t \in {} |-> <<>>]]

AbsentFile == [kind |-> "absent", value |-> JsonOther]
GarbledFile == [kind |-> "garbled", value |-> JsonOther]
JsonFile(v) == [kind |-> "json", value |-> v]

EmptyHistory == JsonDict([t \in Tables |-> <<>>])

load_history_data(file) ==
    IF file.kind = "absent" THEN EmptyHistory
    ELSE IF file.kind = "garbled" THEN EmptyHistory   \* except Exception
    ELSE file.value                                   \* json.load(f)

\* dict.get(key, [])
Get(d, t) == IF t \in DOMAIN d.dict THEN d.dict[t] ELSE <<>>

save_history_merged(file, notice_titles, intention_titles) ==
    LET old == load_history_data(file)
    IN  JsonFile(JsonDict(
            [t \in Tables |->
                IF old.kind = "dict"
                THEN Get(old, t) \o (IF t = "purchase_notice" THEN notice_titles
                                     ELSE intention_titles)
                ELSE IF t = "purchase_notice" THEN notice_titles
                ELSE intention_titles]))

\* the file after a save that succeeds
save_history_data(file, notice_titles, intention_titles) ==
    JsonFile(JsonDict(
        [t \in Tables |-> IF t = "purchase_notice" THEN notice_titles
                          ELSE intention_titles]))

---------------------------------------------------------------------------
(* filter_duplicates.                                                      *)

\* df['is_new'] = df[unique_key].apply(lambda x: x not in history_list)
tag_is_new(d, unique_key, history_list) ==
    WithColumn(d, "is_new",
               [i \in 1..Len(d.rows) |->
                   ~IsIn(d.rows[i].cells[unique_key], history_list)])

IsFirst(d, unique_key, i) ==
    \A j \in 1..(i - 1) : d.rows[j].cells[unique_key] # d.rows[i].cells[unique_key]

IsLast(d, unique_key, i) ==
    \A j \in (i + 1)..Len(d.rows) :
        d.rows[j].cells[unique_key] # d.rows[i].cells[unique_key]

drop_duplicates_keep_last(d, unique_key) ==
    [columns |-> d.columns,
     rows |-> LET marked == [i \in 1..Len(d.rows) |->
                               [row |-> d.rows[i],
                                keep |-> IsLast(d, unique_key, i)]]
                  kept == SelectSeq(marked, LAMBDA e : e.keep)
              IN  [i \in 1..Len(kept) |-> kept[i].row]]

\* df.drop_duplicates(subset=[unique_key], keep='first'); the rows that stay
\* keep their index labels
drop_duplicates(d, unique_key) ==
    [columns |-> d.columns,
     rows |-> LET marked == [i \in 1..Len(d.rows) |->
                               [row |-> d.rows[i],
                                keep |-> IsFirst(d, unique_key, i)]]
                  kept == SelectSeq(marked, LAMBDA e : e.keep)
              IN  [i \in 1..Len(kept) |-> kept[i].row]]

\* df.sort_values(by='is_new', ascending=False, ignore_index=True).  kind is
\* left at its default, 'quicksort', which pandas documents as not stable
\* (numpy's introsort: a run longer than its insertion-sort cutoff is
\* partitioned by swaps).  The order among rows of equal is_new is therefore
\* whatever the sort leaves: every arrangement with the new rows first is a
\* possible result.  ignore_index relabels the rows 0..n-1.
sort_values(d) ==
    LET n == Len(d.rows)
    IN  {[columns |-> d.columns,
          rows |-> [i \in 1..n |-> [index |-> i - 1, cells |-> d.rows[p[i]].cells]]] :
         p \in {q \in Perms(n) :
                  \A i, j \in 1..n :
                     (i < j) => (d.rows[q[i]].cells["is_new"]
                                 \/ ~d.rows[q[j]].cells["is_new"])}}

\* the possible results of filter_duplicates(df, unique_key, history_list)
filter_duplicates(d, unique_key, history_list) ==
    sort_values(drop_duplicates(tag_is_new(d, unique_key, history_list), unique_key))


---------------------------------------------------------------------------
(* read_csv_safe.                                                          *)

\* A CSV file: missing, present but not parseable, or a header with the
\* columns it names and rows of cells (NaN where the file has none).
MissingCsv == [state |-> "missing", columns |-> {}, rows |-> <<>>]
GarbledCsv == [state |-> "garbled", columns |-> {}, rows |-> <<>>]
ParsedCsv(cols, rows) == [state |-> "ok", columns |-> cols, rows |-> rows]

\* pd.read_csv: rows labelled 0..n-1
read_csv(src) ==
    [columns |-> src.columns,
     rows |-> [i \in 1..Len(src.rows) |-> [index |-> i - 1, cells |-> src.rows[i]]]]

\* df.reindex(columns=headers, fill_value=v): exactly the columns of headers,
\* a column the frame lacks filled with v
reindex(d, headers, fill_value) ==
    [columns |-> headers,
     rows |-> [i \in 1..Len(d.rows) |->
                 [index |-> d.rows[i].index,
                  cells |-> [c \in Range(headers) |->
                               IF c \in d.columns THEN d.rows[i].cells[c]
                               ELSE fill_value]]]]

\* df.fillna({col: v}): the NaN cells of one column, if the frame has it
fillna_col(d, col, v) ==
    [columns |-> d.columns,
     rows |-> [i \in 1..Len(d.rows) |->
                 [index |-> d.rows[i].index,
                  cells |-> [c \in Range(d.columns) |->
                               IF c = col /\ d.rows[i].cells[c] = NaN THEN v
                               ELSE d.rows[i].cells[c]]]]]

\* df.fillna(v): every NaN cell
fillna(d, v) ==
    [columns |-> d.columns,
     rows |-> [i \in 1..Len(d.rows) |->
                 [index |-> d.rows[i].index,
                  cells |-> [c \in Range(d.columns) |->
                               IF d.rows[i].cells[c] = NaN THEN v
                               ELSE d.rows[i].cells[c]]]]]

read_csv_safe_category_only(src, headers) ==
    IF src.state = "missing" THEN EmptyDataFrame(headers)
    ELSE IF src.state = "garbled" THEN EmptyDataFrame(headers)
    ELSE fillna_col(reindex([columns |-> src.columns,
                             rows |-> [i \in 1..Len(src.rows) |->
                                         [index |-> i - 1, cells |-> src.rows[i]]]],
                            headers, NO_DATA),
                    CATEGORY_COL, UNCATEGORIZED)

read_csv_safe(src, headers) ==
    IF src.state = "missing" THEN EmptyDataFrame(headers)
    ELSE IF src.state = "garbled" THEN EmptyDataFrame(headers)  \* except Exception
    ELSE fillna(fillna_col(reindex(read_csv(src), headers, NO_DATA),
                           CATEGORY_COL, UNCATEGORIZED),
                NO_DATA)

---------------------------------------------------------------------------
(* parse_time_column.                                                      *)

\* the first format of the list that to_datetime accepts, 0 when none does
FirstFormat(time_str) ==
    IF \E f \in 1..Len(Formats) : to_datetime_format(time_str, f) # Raised
    THEN CHOOSE f \in 1..Len(Formats) :
            /\ to_datetime_format(time_str, f) # Raised
            /\ \A g \in 1..(f - 1) : to_datetime_format(time_str, g) = Raised
    ELSE 0

parse_time(time_str, accepts) ==
    IF time_str \in {NaN, NO_DATA, UNKNOWN, ""} THEN NaT
    ELSE IF FirstFormat(time_str) # 0
         THEN to_datetime_format(time_str, FirstFormat(time_str))
    ELSE IF to_datetime_ignore(time_str, accepts) = Raised THEN NaT  \* except
    ELSE to_datetime_ignore(time_str, accepts)

parse_time_column(d, time_col, accepts) ==
    IF ~IsIn(time_col, d.columns) THEN d
    ELSE WithColumn(d, ParsedCol(time_col),
                    [i \in 1..Len(d.rows) |->
                        parse_time(d.rows[i].cells[time_col], accepts)])


---------------------------------------------------------------------------
(* The page renderer.                                                      *)

\* sorted(values): ascending code point order, each value once
Sorted(S) ==
    CHOOSE s \in [1..Cardinality(S) -> S] :
        \A i, j \in 1..Cardinality(S) : (i < j) => (CodePoint[s[i]] < CodePoint[s[j]])

\* the remove/insert pairs of generate_filter_controls
pin_sentinels(unique_vals) ==
    LET a == IF IsIn(NO_DATA, unique_vals)
             THEN Insert(Remove(unique_vals, NO_DATA), 0, NO_DATA)
             ELSE unique_vals
    IN  IF IsIn(UNCATEGORIZED, a)
        THEN Insert(Remove(a, UNCATEGORIZED), 1, UNCATEGORIZED)
        ELSE a

\* the <option> values of one dropdown, the fixed 'all' first
select_options(d, col) ==
    <<"all">> \o pin_sentinels(Sorted(Range(Column(d, col))))

\* generate_filter_controls: no controls for an empty frame, else one dropdown
\* per filter column
generate_filter_controls(d, filter_cols) ==
    [exists |-> d.rows # <<>>,
     options |-> [c \in Range(filter_cols) |->
                    IF d.rows # <<>> /\ IsIn(c, d.columns)
                    THEN select_options(d, c) ELSE <<>>]]

\* str(row.get("is_new", False)).lower()
BoolAttr(b) == IF b THEN "true" ELSE "false"

\* pd.Timestamp(time_val).timestamp() if pd.notna(time_val) else 0; a string
\* that is no date makes pd.Timestamp raise
timestamp_attr(time_val) ==
    IF time_val.kind = "NaT" THEN [raised |-> FALSE, value |-> 0]
    ELSE IF time_val.kind = "Timestamp" THEN [raised |-> FALSE, value |-> time_val.ts]
    ELSE [raised |-> TRUE, value |-> 0]

\* one <tr> of the table body
tr_html(row, filter_cols, time_col) ==
    [id |-> row.index,
     attrs |-> [c \in Range(filter_cols) |-> row.cells[c]],
     is_new |-> BoolAttr(row.cells["is_new"]),
     timestamp |-> timestamp_attr(row.cells[ParsedCol(time_col)]).value,
     time_orig |-> row.cells[time_col]]

\* df_to_html_with_features: the wrapper of one dataset (its controls and,
\* unless the frame is empty, its table), or the exception it ends with
df_to_html_with_features(d, filter_cols, time_col) ==
    [raised |-> \E i \in 1..Len(d.rows) :
                    timestamp_attr(d.rows[i].cells[ParsedCol(time_col)]).raised,
     has_table |-> d.rows # <<>>,
     rows |-> [i \in 1..Len(d.rows) |-> tr_html(d.rows[i], filter_cols, time_col)],
     controls |-> generate_filter_controls(d, filter_cols)]

NoPage == [t \in Tables |->
            [raised |-> FALSE, has_table |-> FALSE, rows |-> <<>>,
             controls |-> [exists |-> FALSE,
                           options |-> [c \in Range(CONFIG[t].filter_cols) |-> <<>>]]]]

NoHtmlFile == [written |-> FALSE, tables |-> NoPage]

---------------------------------------------------------------------------
(* generate_online_html_table, one action per step.                        *)

NoFrames == [t \in Tables |-> EmptyDataFrame(CONFIG[t].headers)]
NoTitles == [t \in Tables |-> <<>>]

\* the keys a CSV file holds once it is normalised (input of the run)
SourceKeys(src, unique_key) ==
    IF src.state # "ok" THEN {}
    ELSE {IF unique_key \in src.columns /\ src.rows[i][unique_key] # NaN
          THEN src.rows[i][unique_key] ELSE NO_DATA : i \in 1..Len(src.rows)}

\* 1. history_data = load_history_data()
LoadHistory ==
    /\ pc = "load"
    /\ history_data' = load_history_data(historyFile)
    /\ pc' = "read"
    /\ UNCHANGED <<csv, historyFile, htmlFile, errors_ignore, df, titles, page,
                   lastSaved, browserVars>>

\* 2. df_notice, df_intention = read_csv_safe(...)
ReadCsv ==
    /\ pc = "read"
    /\ df' = [t \in Tables |-> read_csv_safe(csv[t], CONFIG[t].headers)]
    /\ pc' = "parse"
    /\ UNCHANGED <<csv, historyFile, htmlFile, errors_ignore, history_data, titles,
                   page, lastSaved, browserVars>>

\* df = parse_time_column(df, time_col), both datasets
ParseTime ==
    /\ pc = "parse"
    /\ df' = [t \in Tables |->
                parse_time_column(df[t], CONFIG[t].time_col, errors_ignore)]
    /\ pc' = "filter"
    /\ UNCHANGED <<csv, historyFile, htmlFile, errors_ignore, history_data, titles,
                   page, lastSaved, browserVars>>

\* 3. df = filter_duplicates(df, key, history_data.get(name, [])) and the
\* current titles; history_data.get raises on a JSON value that is no object
FilterDuplicates ==
    /\ pc = "filter"
    /\ IF history_data.kind # "dict"
       THEN /\ pc' = "aborted"
            /\ UNCHANGED <<df, titles>>
       ELSE /\ \E dn \in filter_duplicates(
                            df["purchase_notice"],
                            CONFIG["purchase_notice"].unique_key,
                            Get(history_data, "purchase_notice")),
                  di \in filter_duplicates(
                            df["purchase_intention"],
                            CONFIG["purchase_intention"].unique_key,
                            Get(history_data, "purchase_intention")) :
                  df' = [t \in Tables |->
                           IF t = "purchase_notice" THEN dn ELSE di]
            /\ titles' = [t \in Tables |-> Column(df'[t], CONFIG[t].unique_key)]
            /\ pc' = "render"
    /\ UNCHANGED <<csv, historyFile, htmlFile, errors_ignore, history_data, page,
                   lastSaved, browserVars>>

\* 6. notice_html, intention_html = df_to_html_with_features(...)
Render ==
    /\ pc = "render"
    /\ LET out == [t \in Tables |->
                     df_to_html_with_features(df[t], CONFIG[t].filter_cols,
                                              CONFIG[t].time_col)]
       IN  IF \E t \in Tables : out[t].raised
           THEN pc' = "aborted" /\ page' = page
           ELSE pc' = "write" /\ page' = out
    /\ UNCHANGED <<csv, historyFile, htmlFile, errors_ignore, history_data, df,
                   titles, lastSaved, browserVars>>

\* a variant of the write step in which the history is saved whether or not
\* the HTML file could be written
WriteHtml_SavesAnyway ==
    /\ pc = "write"
    /\ \E ok \in BOOLEAN :
          htmlFile' = IF ok THEN [written |-> TRUE, tables |-> page] ELSE htmlFile
    /\ pc' = "save"
    /\ UNCHANGED <<csv, historyFile, errors_ignore, history_data, df, titles,
                   page, lastSaved, browserVars>>

\* 9. open(html_output_path, "w") and f.write(full_html); a failure is
\* printed and the run ends
WriteHtml ==
    /\ pc = "write"
    /\ \E ok \in BOOLEAN :
          IF ok THEN /\ htmlFile' = [written |-> TRUE, tables |-> page]
                     /\ pc' = "save"
          ELSE /\ htmlFile' = htmlFile
               /\ pc' = "done"
    /\ UNCHANGED <<csv, historyFile, errors_ignore, history_data, df, titles,
                   page, lastSaved, browserVars>>

\* save_history_data(current_notice_titles, current_intention_titles); a
\* failure to open the file is printed and leaves the file as it was
SaveHistory ==
    /\ pc = "save"
    /\ \E ok \in BOOLEAN :
          IF ok THEN /\ historyFile' = save_history_data(
                                           historyFile,
                                           titles["purchase_notice"],
                                           titles["purchase_intention"])
                     /\ lastSaved' =
                           [latest |-> [t \in Tables |->
                                          SourceKeys(csv[t], CONFIG[t].unique_key)],
                            ever |-> [t \in Tables |->
                                        lastSaved.ever[t]
                                        \cup SourceKeys(csv[t], CONFIG[t].unique_key)]]
          ELSE UNCHANGED <<historyFile, lastSaved>>
    /\ pc' = "done"
    /\ UNCHANGED <<csv, htmlFile, errors_ignore, history_data, df, titles, page,
                   browserVars>>

Run == LoadHistory \/ ReadCsv \/ ParseTime \/ FilterDuplicates \/ Render
          \/ WriteHtml \/ SaveHistory


---------------------------------------------------------------------------
(* The script of the page.  Each handler is a function of the state of     *)
(* one table: u.tbody (exists, rows: each the <tr> as rendered and its     *)
(* style.display), u.selects (exists, options and value per column),       *)
(* u.fs (filterState[tableId]) and u.orig (originalRowOrder[tableId]).     *)

TableIds == {"notice", "intention"}

ConfigOf(tableId) ==
    IF tableId = "notice" THEN "purchase_notice" ELSE "purchase_intention"

\* filterCols of baseFilterTable and resetFilter
JsFilterCols ==
    [notice |-> <<"level", "category">>, intention |-> <<"i_level", "unit">>]

UiState(tableId) ==
    [tbody |-> tbody[tableId], selects |-> selects[tableId],
     fs |-> filterState[tableId], orig |-> originalRowOrder[tableId]]

\* the rows a string of <tr> elements parses to: none carries a style
ParseRows(htmls) == [i \in 1..Len(htmls) |-> [html |-> htmls[i], display |-> ""]]

\* saveOriginalRowOrder: nothing without a tbody
saveOriginalRowOrder(u) ==
    IF ~u.tbody.exists THEN u
    ELSE [u EXCEPT !.orig = [i \in 1..Len(u.tbody.rows) |-> u.tbody.rows[i].html]]

\* shouldShow of baseFilterTable for one row
shouldShow(u, cols, row) ==
    /\ \A k \in 1..Len(cols) :
          \/ u.selects.value[cols[k]] = "all"
          \/ row.html.attrs[cols[k]] = u.selects.value[cols[k]]
    /\ ~(u.fs.onlyNew /\ row.html.is_new # "true")

\* baseFilterTable: tbody.querySelectorAll throws when the page has no tbody
\* for the table, and nothing changes
baseFilterTable(u, cols) ==
    IF ~u.tbody.exists THEN u
    ELSE [u EXCEPT !.tbody.rows =
            [i \in 1..Len(u.tbody.rows) |->
                [html |-> u.tbody.rows[i].html,
                 display |-> IF shouldShow(u, cols, u.tbody.rows[i])
                             THEN "" ELSE "none"]]]

\* parseFloat(row.getAttribute('data-timestamp')) || 0
TimestampOf(row) == IF row.html.timestamp = 0 THEN 0 ELSE row.html.timestamp

\* the comparator of sortByTime: a negative result puts a first
Compare(sortType, a, b) ==
    IF sortType = "newest" THEN TimestampOf(b) - TimestampOf(a)
    ELSE TimestampOf(a) - TimestampOf(b)

\* Array.prototype.sort (stable): the arrangement in which no row is put
\* before one the comparator orders ahead of it, ties in their former order
SortRows(rows, sortType) ==
    LET n == Len(rows)
        p == CHOOSE q \in Perms(n) :
                \A i, j \in 1..n :
                   (i < j) =>
                      \/ Compare(sortType, rows[q[i]], rows[q[j]]) < 0
                      \/ /\ Compare(sortType, rows[q[i]], rows[q[j]]) = 0
                         /\ q[i] < q[j]
    IN  [i \in 1..n |-> rows[p[i]]]

IsVisible(row) == row.display # "none"

\* sortByTime(tableId, sortType)
sortByTime(u, sortType) ==
    IF ~u.tbody.exists THEN u
    ELSE IF sortType = "reset"
    THEN [u EXCEPT !.fs.sortType = sortType,
                   !.tbody.rows = ParseRows(u.orig)]
    ELSE LET visibleRows == SelectSeq(u.tbody.rows, IsVisible)
             hiddenRows == SelectSeq(u.tbody.rows, LAMBDA r : ~IsVisible(r))
         IN  [u EXCEPT !.fs.sortType = sortType,
                       !.tbody.rows = hiddenRows \o SortRows(visibleRows, sortType)]

\* the dropdown of one column set to a value (only where the element exists)
SetSelect(u, col, v) ==
    IF ~u.selects.exists THEN u ELSE [u EXCEPT !.selects.value[col] = v]

\* resetFilter(tableId)
resetFilter(u, cols) ==
    LET a == [u EXCEPT !.selects.value =
                 IF u.selects.exists
                 THEN [c \in DOMAIN u.selects.value |-> "all"]
                 ELSE u.selects.value,
                       !.fs.onlyNew = FALSE]
    IN  baseFilterTable(sortByTime(a, "reset"), cols)

filterOnlyNew(u, cols) == baseFilterTable([u EXCEPT !.fs.onlyNew = TRUE], cols)

filterShowAll(u, cols) == baseFilterTable([u EXCEPT !.fs.onlyNew = FALSE], cols)

\* the four variables with the state of one table replaced
SetUi(tableId, u) ==
    /\ tbody' = [tbody EXCEPT ![tableId] = u.tbody]
    /\ selects' = [selects EXCEPT ![tableId] = u.selects]
    /\ filterState' = [filterState EXCEPT ![tableId] = u.fs]
    /\ originalRowOrder' = [originalRowOrder EXCEPT ![tableId] = u.orig]

\* the document as parsed from the HTML file, before any script has run
Parsed(tableId) ==
    LET w == htmlFile.tables[ConfigOf(tableId)]
    IN  [tbody |-> [exists |-> w.has_table, rows |-> ParseRows(w.rows)],
         selects |-> [exists |-> w.controls.exists,
                      options |-> w.controls.options,
                      value |-> [c \in DOMAIN w.controls.options |-> "all"]],
         fs |-> [onlyNew |-> FALSE, sortType |-> "original"],
         orig |-> <<>>]

NoUi == [tbody |-> [exists |-> FALSE, rows |-> <<>>],
         selects |-> [exists |-> FALSE, options |-> <<>>, value |-> <<>>],
         fs |-> [onlyNew |-> FALSE, sortType |-> "original"],
         orig |-> <<>>]

\* window.onload: both saveOriginalRowOrder calls, then resetFilter('notice')
\* and, unless that threw (no tbody), resetFilter('intention')
PageLoad ==
    /\ pc = "done"
    /\ htmlFile.written
    /\ ~loaded
    /\ loaded' = TRUE
    /\ LET n0 == saveOriginalRowOrder(Parsed("notice"))
           i0 == saveOriginalRowOrder(Parsed("intention"))
           n1 == resetFilter(n0, JsFilterCols["notice"])
           i1 == IF n0.tbody.exists
                 THEN resetFilter(i0, JsFilterCols["intention"]) ELSE i0
           u == [notice |-> n1, intention |-> i1]
       IN  /\ tbody' = [t \in TableIds |-> u[t].tbody]
           /\ selects' = [t \in TableIds |-> u[t].selects]
           /\ filterState' = [t \in TableIds |-> u[t].fs]
           /\ originalRowOrder' = [t \in TableIds |-> u[t].orig]
    /\ UNCHANGED runVars

\* a dropdown changed by the user: onchange = filterTable(tableId)
FilterTable ==
    /\ loaded
    /\ \E t \in TableIds :
          /\ selects[t].exists
          /\ \E c \in DOMAIN selects[t].options :
                \E k \in 1..Len(selects[t].options[c]) :
                   SetUi(t, baseFilterTable(
                                SetSelect(UiState(t), c, selects[t].options[c][k]),
                                JsFilterCols[t]))
    /\ UNCHANGED <<runVars, loaded>>

FilterOnlyNew ==
    /\ loaded
    /\ \E t \in TableIds : SetUi(t, filterOnlyNew(UiState(t), JsFilterCols[t]))
    /\ UNCHANGED <<runVars, loaded>>

FilterShowAll ==
    /\ loaded
    /\ \E t \in TableIds : SetUi(t, filterShowAll(UiState(t), JsFilterCols[t]))
    /\ UNCHANGED <<runVars, loaded>>

ResetFilter ==
    /\ loaded
    /\ \E t \in TableIds : SetUi(t, resetFilter(UiState(t), JsFilterCols[t]))
    /\ UNCHANGED <<runVars, loaded>>

SortByTime ==
    /\ loaded
    /\ \E t \in TableIds, sortType \in {"newest", "oldest", "reset"} :
          SetUi(t, sortByTime(UiState(t), sortType))
    /\ UNCHANGED <<runVars, loaded>>

Browser == PageLoad \/ FilterTable \/ FilterOnlyNew \/ FilterShowAll
              \/ ResetFilter \/ SortByTime


---------------------------------------------------------------------------
(* The inputs of the model: CSV files and history files.                   *)

LINK == "http://example.org/1"

\* one CSV row of dataset t with every column of its headers
Row(t, key, level, cat, time) ==
    [c \in Range(CONFIG[t].headers) |->
        IF c = CONFIG[t].unique_key THEN key
        ELSE IF c = CONFIG[t].filter_cols[1] THEN level
        ELSE IF c = CONFIG[t].filter_cols[2] THEN cat
        ELSE IF c = CONFIG[t].time_col THEN time
        ELSE LINK]

FullCsv(t, rows) == ParsedCsv(Range(CONFIG[t].headers), rows)

\* rows k1, k2, ... in this order, one per element of a sequence of payloads
KeyOf(i) == IF i = 1 THEN "k1" ELSE IF i = 2 THEN "k2" ELSE IF i = 3 THEN "k3" ELSE "k4"

\* duplicate keys: rows over two keys that differ in their level
DedupCsvs ==
    {FullCsv("purchase_notice", rows) :
        rows \in SeqsUpTo({Row("purchase_notice", k, l, "huowu", "2024-03-02") :
                              k \in {"k1", "k2"}, l \in {"shiji", "shengji"}},
                          MaxRows)}

\* files with columns absent, a column the schema lacks, and cells missing
ShapeCsvs ==
    LET H == Range(CONFIG["purchase_notice"].headers)
        colsets == {H, H \ {"category", "pub_time"}, {"title", "level", "extra"}}
        cell(c, missing) == IF c \in missing THEN NaN
                            ELSE IF c = "title" THEN "k1"
                            ELSE IF c = "pub_time" THEN "2024-03-02"
                            ELSE IF c = "link" THEN LINK
                            ELSE "shiji"
    IN  UNION {{ParsedCsv(cs, rows) :
                   rows \in SeqsUpTo({[c \in cs |-> cell(c, m)] :
                                         m \in SUBSET {"title", "category", "pub_time"}},
                                     2)} :
               cs \in colsets}

\* every time string of the catalogue
TimeCsvs ==
    {FullCsv("purchase_notice",
             [i \in 1..Len(ts) |->
                 Row("purchase_notice", KeyOf(i), "shiji", "huowu", ts[i])]) :
        ts \in SeqsUpTo(TimeStrings, 2)}

\* category values with and without the two pinned ones
ControlCsvs ==
    {FullCsv("purchase_notice",
             [i \in 1..Len(cs) |->
                 Row("purchase_notice", KeyOf(i), "shiji", cs[i], "2024-03-02")]) :
        cs \in SeqsUpTo({"gongcheng", NO_DATA, UNCATEGORIZED, "huowu"}, 3)}

SmallCsvs(t) ==
    {MissingCsv, GarbledCsv,
     FullCsv(t, <<Row(t, "k1", "shiji", "huowu", "2024-03-02")>>),
     FullCsv(t, <<Row(t, "k2", "shiji", "huowu", "2024-03-02"),
                  Row(t, "k1", "shengji", "huowu", "")>>)}

\* history files: none, unreadable, JSON that is no object, objects that lack
\* one or both key lists, and what an earlier run saved
HistoryFiles ==
    {AbsentFile, GarbledFile, JsonFile(JsonOther)}
    \cup {JsonFile(JsonDict([t \in S |-> <<"k1">>])) : S \in SUBSET Tables}
    \cup {JsonFile(JsonDict([t \in Tables |-> <<"k2", "k1">>]))}

SavedBy(file) ==
    [t \in Tables |->
        IF file.kind = "json" /\ file.value.kind = "dict"
        THEN Range(Get(file.value, t)) ELSE {}]

NoBrowser ==
    /\ tbody = [t \in TableIds |-> NoUi.tbody]
    /\ selects = [t \in TableIds |-> NoUi.selects]
    /\ filterState = [t \in TableIds |-> NoUi.fs]
    /\ originalRowOrder = [t \in TableIds |-> NoUi.orig]
    /\ loaded = FALSE

\* the script is started: nothing read yet
Started ==
    /\ pc = "load"
    /\ history_data = EmptyHistory
    /\ df = NoFrames
    /\ titles = NoTitles
    /\ page = NoPage
    /\ htmlFile = NoHtmlFile
    /\ lastSaved = [latest |-> SavedBy(historyFile), ever |-> SavedBy(historyFile)]
    /\ NoBrowser

Files(notice, intention) ==
    [t \in Tables |-> IF t = "purchase_notice" THEN notice ELSE intention]

---------------------------------------------------------------------------
(* One run of the script over each family of inputs.                       *)

Init ==
    /\ \/ /\ csv \in {Files(n, MissingCsv) : n \in DedupCsvs}
          /\ historyFile \in {AbsentFile,
                              JsonFile(JsonDict([t \in Tables |-> <<"k1">>])),
                              JsonFile(JsonDict([t \in Tables |-> <<"k2">>]))}
          /\ errors_ignore = TRUE
       \/ /\ csv \in {Files(n, i) : n \in ShapeCsvs \cup {MissingCsv, GarbledCsv},
                                    i \in {MissingCsv, GarbledCsv}}
          /\ historyFile = AbsentFile
          /\ errors_ignore = TRUE
       \/ /\ csv \in {Files(n, MissingCsv) : n \in TimeCsvs}
          /\ historyFile = AbsentFile
          /\ errors_ignore \in BOOLEAN
       \/ /\ csv \in {Files(n, MissingCsv) : n \in ControlCsvs}
          /\ historyFile = AbsentFile
          /\ errors_ignore = TRUE
       \/ /\ csv \in {Files(n, i) : n \in SmallCsvs("purchase_notice"),
                                    i \in SmallCsvs("purchase_intention")}
          /\ historyFile \in HistoryFiles
          /\ errors_ignore = TRUE
    /\ Started

Next == Run

Spec == Init /\ [][Next]_vars


---------------------------------------------------------------------------
(* Repeated runs: between two runs the CSV files are rewritten.            *)

RunCsvs(t) ==
    {MissingCsv}
    \cup {FullCsv(t, [i \in 1..Len(ks) |->
                        Row(t, ks[i], "shiji", "huowu", "2024-03-02")]) :
             ks \in SeqsUpTo({"k1", "k2"}, MaxRunRows)}

\* the script is started again over new CSV files
NextRun ==
    /\ pc \in {"done", "aborted"}
    /\ csv' \in {Files(n, i) : n \in RunCsvs("purchase_notice"),
                               i \in {MissingCsv,
                                      FullCsv("purchase_intention",
                                              <<Row("purchase_intention", "k1",
                                                    "shiji", "huowu", "2024-03-02")>>)}}
    /\ pc' = "load"
    /\ history_data' = EmptyHistory
    /\ df' = NoFrames
    /\ titles' = NoTitles
    /\ page' = NoPage
    /\ UNCHANGED <<historyFile, htmlFile, errors_ignore, lastSaved, browserVars>>

InitRuns ==
    /\ csv = Files(MissingCsv, MissingCsv)
    /\ historyFile = AbsentFile
    /\ errors_ignore = TRUE
    /\ Started

NextRuns == Run \/ NextRun

SpecRuns == InitRuns /\ [][NextRuns]_vars

---------------------------------------------------------------------------
(* One run and the page it wrote, opened in a browser.                     *)

UiCsvs ==
    {FullCsv("purchase_notice",
             [i \in 1..Len(rs) |->
                 Row("purchase_notice", KeyOf(i), rs[i][1], "huowu", rs[i][2])]) :
        rs \in SeqsUpTo({"shiji", "shengji"} \X {"", "2024-03-02", "1969-12-31"},
                        MaxUiRows)}

InitClient ==
    /\ \/ /\ csv \in {Files(n, MissingCsv) : n \in UiCsvs}
          /\ historyFile \in {AbsentFile,
                              JsonFile(JsonDict([t \in Tables |-> <<"k2">>]))}
       \/ /\ csv = Files(MissingCsv,
                         FullCsv("purchase_intention",
                                 <<Row("purchase_intention", "k1", "shiji", "huowu",
                                       "2024-03-02")>>))
          /\ historyFile = AbsentFile
    /\ errors_ignore = TRUE
    /\ Started

NextClient == Run \/ Browser

SpecClient == InitClient /\ [][NextClient]_vars


---------------------------------------------------------------------------
(* Properties.                                                             *)

\* filter_duplicates has returned and df holds its results
Filtered == pc \in {"render", "write", "save", "done"}

\* the dataset that filter_duplicates was given: the normalised CSV rows in
\* source order
InputRows(t) == Cells(read_csv_safe(csv[t], CONFIG[t].headers))

KeyAt(rows, t, i) == rows[i][CONFIG[t].unique_key]

\* the first row of the input that carries key k
FirstWith(t, k) ==
    CHOOSE j \in 1..Len(InputRows(t)) :
        /\ KeyAt(InputRows(t), t, j) = k
        /\ \A h \in 1..(j - 1) : KeyAt(InputRows(t), t, h) # k

\* C1: filter_duplicates returns exactly one row per distinct unique-key
\* value of its input, and that row is the first row of the input, in
\* source order, that carries the key (its cells are that row's cells).
C1_OneRowPerKeyTheFirst ==
    Filtered =>
        \A t \in Tables :
            LET in == InputRows(t)
                out == Cells(df[t])
                inKeys == {KeyAt(in, t, j) : j \in 1..Len(in)}
            IN  /\ \A i \in 1..Len(out) : KeyAt(out, t, i) \in inKeys
                /\ \A k \in inKeys :
                      /\ Cardinality({i \in 1..Len(out) : KeyAt(out, t, i) = k}) = 1
                      /\ \A i \in 1..Len(out) :
                            (KeyAt(out, t, i) = k) =>
                               \A c \in Range(CONFIG[t].headers) :
                                  out[i][c] = in[FirstWith(t, k)][c]

\* C1 witness: the input held two rows of one key that differ in another
\* column, and filter_duplicates has returned.
C1_Witness ==
    /\ Filtered
    /\ \E i, j \in 1..Len(InputRows("purchase_notice")) :
          /\ i < j
          /\ InputRows("purchase_notice")[i]["title"]
                = InputRows("purchase_notice")[j]["title"]
          /\ InputRows("purchase_notice")[i]["level"]
                # InputRows("purchase_notice")[j]["level"]

\* the keys of the input in the order of their first rows: the order of the
\* rows after deduplication
DedupPos(t, k) ==
    Cardinality({KeyAt(InputRows(t), t, h) : h \in 1..(FirstWith(t, k) - 1)})

\* C2: in every output of filter_duplicates each row with is_new = true
\* precedes each row with is_new = false, and within the new rows and within
\* the seen rows the order is the one the rows had after deduplication.
C2_StablePartition ==
    Filtered =>
        \A t \in Tables :
            LET out == Cells(df[t])
            IN  \A i, j \in 1..Len(out) :
                   (i < j) =>
                      /\ out[i]["is_new"] \/ ~out[j]["is_new"]
                      /\ (out[i]["is_new"] = out[j]["is_new"]) =>
                            DedupPos(t, KeyAt(out, t, i)) < DedupPos(t, KeyAt(out, t, j))

\* the part of C2 that does not depend on the order of ties
C2_NewRowsFirst ==
    Filtered =>
        \A t \in Tables :
            \A i, j \in 1..Len(df[t].rows) :
               (i < j) => (df[t].rows[i].cells["is_new"]
                           \/ ~df[t].rows[j].cells["is_new"])

\* C4: read_csv_safe returns, for every source, a dataset whose columns are
\* exactly the target headers in order and in which no cell is null; a
\* missing or unparseable file gives the empty dataset with these headers.
C4_SchemaAndNoNull ==
    (pc = "parse") =>
        \A t \in Tables :
            /\ df[t].columns = CONFIG[t].headers
            /\ Len(df[t].rows) = IF csv[t].state = "ok" THEN Len(csv[t].rows) ELSE 0
            /\ \A i \in 1..Len(df[t].rows) :
                  /\ DOMAIN df[t].rows[i].cells = Range(CONFIG[t].headers)
                  /\ \A c \in Range(CONFIG[t].headers) : df[t].rows[i].cells[c] # NaN

\* C4 witness: read_csv_safe has returned for a file that lacks a column of
\* the schema and has a missing cell in another.
C4_Witness ==
    /\ pc = "parse"
    /\ csv["purchase_notice"].state = "ok"
    /\ "pub_time" \notin csv["purchase_notice"].columns
    /\ \E i \in 1..Len(csv["purchase_notice"].rows) :
          csv["purchase_notice"].rows[i]["title"] = NaN
    /\ csv["purchase_intention"].state = "garbled"


\* parse_time_column has returned and df holds the derived column
TimeParsed == pc \in {"filter", "render", "write", "save", "done", "aborted"}

\* C5: for every value of the time column the derived field is a real
\* timestamp or null; an empty value, a "no data" sentinel and a value that
\* matches no format and fails the generic parse give null; and no value
\* makes the parser or the rendering of data-timestamp raise (the only
\* exception that ends a run comes from the history, not from a time value).
C5_TimestampOrNull ==
    /\ TimeParsed =>
          \A t \in Tables :
             \A i \in 1..Len(df[t].rows) :
                LET time_str == df[t].rows[i].cells[CONFIG[t].time_col]
                    parsed == df[t].rows[i].cells[ParsedCol(CONFIG[t].time_col)]
                IN  /\ parsed.kind \in {"Timestamp", "NaT"}
                    /\ (\/ time_str \in {"", NO_DATA, UNKNOWN}
                        \/ (Entry(time_str).fmt = 0 /\ ~Entry(time_str).generic))
                          => parsed = NaT
    /\ (pc = "aborted") => (history_data.kind # "dict")

\* C6: load_history_data returns the empty history whenever the file is
\* absent or unreadable; whatever the file holds, the run goes on to the
\* generation of the HTML (it is not ended by the history); and a history
\* that lacks the key list of a dataset counts as empty for that dataset
\* (every row of the dataset is tagged new).
C6_HistoryNeverAborts ==
    /\ (pc # "load" /\ historyFile.kind \in {"absent", "garbled"})
          => history_data = EmptyHistory
    /\ ~(pc = "aborted" /\ history_data.kind # "dict")
    /\ Filtered =>
          \A t \in Tables :
             (history_data.kind = "dict" /\ t \notin DOMAIN history_data.dict)
                => \A i \in 1..Len(df[t].rows) : df[t].rows[i].cells["is_new"]

Pinned == {NO_DATA, UNCATEGORIZED}

\* C8: the options of each dropdown after the fixed 'all' are exactly the
\* distinct values of the column, and a pinned value ("no data",
\* "uncategorized") that is among them stands before every ordinary value,
\* also when only one of the two is present.
C8_PinnedValuesFirst ==
    (pc \in {"write", "save", "done"}) =>
        \A t \in Tables :
            page[t].controls.exists =>
                \A c \in Range(CONFIG[t].filter_cols) :
                    LET opts == page[t].controls.options[c]
                        vals == Tail(opts)
                    IN  /\ Head(opts) = "all"
                        /\ Range(vals) = Range(Column(df[t], c))
                        /\ Len(vals) = Cardinality(Range(vals))
                        /\ \A i, j \in 1..Len(vals) :
                              (i < j /\ vals[j] \in Pinned) => vals[i] \in Pinned

\* the part of C8 that the code keeps: the options are the distinct values
C8_OptionsAreDistinctValues ==
    (pc \in {"write", "save", "done"}) =>
        \A t \in Tables :
            page[t].controls.exists =>
                \A c \in Range(CONFIG[t].filter_cols) :
                    /\ Head(page[t].controls.options[c]) = "all"
                    /\ Range(Tail(page[t].controls.options[c])) = Range(Column(df[t], c))
                    /\ Len(page[t].controls.options[c])
                          = 1 + Cardinality(Range(Column(df[t], c)))


---------------------------------------------------------------------------
(* Properties of the page script.                                          *)

Shown(t) == loaded /\ tbody[t].exists

\* C7: from a table state reached by filter actions (the latest sort was the
\* restore of the original order), sortByTime with 'newest' or 'oldest' and
\* then with 'reset' gives back the rows in the same sequence with the same
\* attributes and the same visibility; 'reset' twice is 'reset' once.
C7_SortThenResetRestores ==
    \A t \in TableIds :
        (Shown(t) /\ filterState[t].sortType = "reset") =>
            \A sortType \in {"newest", "oldest"} :
                LET once == sortByTime(sortByTime(UiState(t), sortType), "reset")
                IN  /\ once.tbody = tbody[t]
                    /\ sortByTime(once, "reset").tbody = once.tbody

\* the parts of C7 that the code keeps: the sequence of the rows and their
\* attributes, and the idempotence of 'reset'
C7_SequenceRestored ==
    \A t \in TableIds :
        (Shown(t) /\ filterState[t].sortType = "reset") =>
            \A sortType \in {"newest", "oldest"} :
                LET once == sortByTime(sortByTime(UiState(t), sortType), "reset")
                IN  /\ [i \in 1..Len(once.tbody.rows) |-> once.tbody.rows[i].html]
                          = [i \in 1..Len(tbody[t].rows) |-> tbody[t].rows[i].html]
                    /\ sortByTime(once, "reset").tbody = once.tbody

HasNullTime(row) == row.html.time_orig \in {"", NO_DATA, UNKNOWN}

HasRealTime(row) == parse_time(row.html.time_orig, TRUE).kind = "Timestamp"

\* C9: a row whose time value is empty or a sentinel (its derived timestamp
\* is null) is ordered by sortByTime as the earliest row: after every visible
\* row with a real timestamp under 'newest', before every such row under
\* 'oldest'.
C9_NullTimeSortsEarliest ==
    \A t \in TableIds :
        Shown(t) =>
            LET newest == sortByTime(UiState(t), "newest").tbody.rows
                oldest == sortByTime(UiState(t), "oldest").tbody.rows
            IN  \A i, j \in 1..Len(tbody[t].rows) :
                   /\ (/\ IsVisible(newest[i]) /\ HasNullTime(newest[i])
                       /\ IsVisible(newest[j]) /\ HasRealTime(newest[j])) => j < i
                   /\ (/\ IsVisible(oldest[i]) /\ HasNullTime(oldest[i])
                       /\ IsVisible(oldest[j]) /\ HasRealTime(oldest[j])) => i < j

\* the visibility the filter selection of table t asks for
Selected(t, row) ==
    /\ \A k \in 1..Len(JsFilterCols[t]) :
          \/ selects[t].value[JsFilterCols[t][k]] = "all"
          \/ selects[t].value[JsFilterCols[t][k]] = row.html.attrs[JsFilterCols[t][k]]
    /\ (~filterState[t].onlyNew \/ row.html.is_new = "true")

\* C10: after any sequence of filterTable, filterOnlyNew, filterShowAll,
\* resetFilter and sortByTime a row is visible exactly when every dropdown
\* is 'all' or equals the row's attribute and onlyNew is false or the row is
\* new; sortByTime with 'reset' shows no row the selection excludes.
C10_VisibleIffSelected ==
    \A t \in TableIds :
        Shown(t) =>
            \A i \in 1..Len(tbody[t].rows) :
                IsVisible(tbody[t].rows[i]) <=> Selected(t, tbody[t].rows[i])

\* the visible rows of table t, in the order of the page
VisibleRows(t) == SelectSeq(tbody[t].rows, IsVisible)

\* rows in the order the recorded sortType names
InSortOrder(rows, sortType) ==
    \A i, j \in 1..Len(rows) :
        (i < j) => Compare(sortType, rows[i], rows[j]) <= 0

\* C11: after any sequence of filter and sort actions, whenever the recorded
\* sortType of a table is 'newest' its visible rows are in non-increasing
\* timestamp order and whenever it is 'oldest' in non-decreasing order, also
\* after rows hidden at the time of the sort were made visible by a filter
\* change.
C11_VisibleRowsInSortOrder ==
    \A t \in TableIds :
        (Shown(t) /\ filterState[t].sortType \in {"newest", "oldest"}) =>
            InSortOrder(VisibleRows(t), filterState[t].sortType)

\* the part of C11 that the code keeps: directly after sortByTime the rows
\* visible at that moment are in the order asked for
C11_SortedRightAfterSort ==
    \A t \in TableIds :
        Shown(t) =>
            \A sortType \in {"newest", "oldest"} :
                LET u == sortByTime(UiState(t), sortType)
                IN  InSortOrder(SelectSeq(u.tbody.rows, IsVisible), sortType)

---------------------------------------------------------------------------
(* The order of the two writes that end a run.                             *)

\* the keys the persisted history holds for source t, as the next run loads
\* them
PersistedKeys(t) == Range(Get(load_history_data(historyFile), t))

\* C12: in a run the persisted history is overwritten only after the HTML
\* file was written successfully (with the page of this run); when writing
\* the HTML file fails the run still ends normally, the persisted history is
\* what it was before the step, and the rows this run tagged new are exactly
\* those whose key the persisted history lacks, so that the next run tags the
\* same rows new again.
C12_HistoryOnlyAfterHtml ==
    [][/\ (historyFile' # historyFile) =>
              /\ pc = "save"
              /\ htmlFile.written
              /\ htmlFile.tables = page
       /\ (pc \in {"load", "read", "parse", "filter", "render", "write"}) =>
              historyFile' = historyFile
       /\ (pc = "write" /\ pc' # "save") =>
              /\ pc' = "done"
              /\ historyFile' = historyFile
              /\ \A t \in Tables :
                    \A i \in 1..Len(df'[t].rows) :
                        df'[t].rows[i].cells["is_new"]
                           <=> (df'[t].rows[i].cells[CONFIG[t].unique_key]
                                   \notin PersistedKeys(t)')]_vars

\* C12 witness: a run has ended after its HTML write failed (no HTML file
\* was ever written) with a row tagged new, and the persisted history still
\* lacks the key of that row.
C12_Witness ==
    /\ pc = "done"
    /\ ~htmlFile.written
    /\ \E i \in 1..Len(df["purchase_notice"].rows) :
          /\ df["purchase_notice"].rows[i].cells["is_new"]
          /\ df["purchase_notice"].rows[i].cells["title"]
                \notin PersistedKeys("purchase_notice")

=============================================================================
